---- MODULE Spec2Model ----
(***************************************************************************)
(* Register-level model of the MCP9600 thermocouple amplifier driver       *)
(* (adafruit_mcp9600.MCP9600).  The chip is a memory of registers reached  *)
(* over an I2C transport; every driver call is a sequence of transport     *)
(* transactions followed by a decode.  Register contents are kept as the   *)
(* bytes that travel on the wire (upper byte first), so that byte order,   *)
(* masks and shifts are computed and not assumed.                          *)
(***************************************************************************)
EXTENDS Integers, Sequences, FiniteSets, TLC

VARIABLES
    state,    \* the handle: "new" (before __init__), "ready", "failed"
    mem,      \* chip memory: register address -> bytes, upper byte first
    call,     \* the last driver call: [op, field, arg]
    ret,      \* what that call gave back: [status, val]
    bus,      \* the transport transactions that call issued, in order
    wrote,    \* addresses the driver has issued a transport write to
    lastw,    \* per 16-bit read-write register, the value last written (-1: none)
    nwrites,  \* number of write calls made through the handle
    tpc,      \* per caller: "idle", "read" (between the two halves), "done"
    tfield,   \* per caller: name of the field it is writing
    tval,     \* per caller: the value it is writing
    treg,     \* per caller: the register value it computed from its read
    overlap   \* whether two callers were ever between their halves at once

vars == <<state, mem, call, ret, bus, wrote, lastw, nwrites,
          tpc, tfield, tval, treg, overlap>>

------------------------------------------------------------------------------
(* Integer bit operations, as Python computes them on non-negative ints.   *)

RECURSIVE BitAnd(_, _)
BitAnd(a, b) ==
    IF a = 0 \/ b = 0 THEN 0
    ELSE (a % 2) * (b % 2) + 2 * BitAnd(a \div 2, b \div 2)

RECURSIVE BitOr(_, _)
BitOr(a, b) ==
    IF a = 0 THEN b
    ELSE IF b = 0 THEN a
    ELSE (IF a % 2 = 1 \/ b % 2 = 1 THEN 1 ELSE 0) + 2 * BitOr(a \div 2, b \div 2)

\* a & ~m
BitAndNot(a, m) == a - BitAnd(a, m)

\* a << n, a >> n
Shl(a, n) == a * (2 ^ n)
Shr(a, n) == a \div (2 ^ n)

------------------------------------------------------------------------------
(* Enumerated values of the configuration fields.                          *)

TYPE_K == 0
TYPE_J == 1
TYPE_T == 2
TYPE_N == 3
TYPE_S == 4
TYPE_E == 5
TYPE_B == 6
TYPE_R == 7

FC_0 == 0
FC_7 == 7

ADC_18 == 0
ADC_16 == 1
ADC_14 == 2
ADC_12 == 3

BURST_1 == 0
BURST_128 == 7

NORMAL == 0
SHUTDOWN == 1
BURST == 2

\* The identity byte __init__ expects.
DEVICE_ID == 64

------------------------------------------------------------------------------
(* Register descriptors.  The three constructors keep what the register    *)
(* library's descriptor classes keep: RWBit/ROBit a mask within one byte   *)
(* and that byte's place in the transfer, RWBits/ROBits a mask over the    *)
(* whole register and its lowest bit, UnaryStruct/ROUnaryStruct the        *)
(* struct format (">H": two bytes, unsigned, upper byte first).            *)

RWBit(n, register_address, bit, register_width, lsb_first) ==
    [name |-> n, rw |-> TRUE, addr |-> register_address,
     bit_mask |-> Shl(1, bit % 8), width |-> register_width,
     byte |-> IF lsb_first THEN (bit \div 8) + 1
              ELSE register_width - (bit \div 8)]

ROBit(n, register_address, bit, register_width, lsb_first) ==
    [RWBit(n, register_address, bit, register_width, lsb_first)
        EXCEPT !.rw = FALSE]

RWBits(n, num_bits, register_address, lowest_bit, register_width, lsb_first) ==
    [name |-> n, rw |-> TRUE, addr |-> register_address,
     bit_mask |-> Shl((2 ^ num_bits) - 1, lowest_bit),
     lowest_bit |-> lowest_bit, width |-> register_width,
     lsb_first |-> lsb_first]

ROBits(n, num_bits, register_address, lowest_bit, register_width, lsb_first) ==
    [RWBits(n, num_bits, register_address, lowest_bit, register_width, lsb_first)
        EXCEPT !.rw = FALSE]

\* big_endian is the ">" of the format, size the two bytes of its "H".
UnaryStruct(n, register_address, size, big_endian) ==
    [name |-> n, rw |-> TRUE, addr |-> register_address,
     size |-> size, big_endian |-> big_endian]

ROUnaryStruct(n, register_address, size, big_endian) ==
    [UnaryStruct(n, register_address, size, big_endian) EXCEPT !.rw = FALSE]

\* Temperatures - 0x0 .. 0x3
_hot_junction_temperature ==
    ROUnaryStruct("_hot_junction_temperature", 0, 2, TRUE)
_junctions_temperature_delta ==
    ROUnaryStruct("_junctions_temperature_delta", 1, 2, TRUE)
_cold_junction_temperature ==
    ROUnaryStruct("_cold_junction_temperature", 2, 2, TRUE)
raw_adc ==
    ROUnaryStruct("raw_adc", 3, 2, TRUE)
\* STATUS - 0x4
burst_complete ==
    RWBit("burst_complete", 4, 7, 1, TRUE)
temperature_update ==
    RWBit("temperature_update", 4, 6, 1, TRUE)
\* input_range declared with the read-write class of its neighbours.
input_range_rw ==
    RWBit("input_range", 4, 4, 1, TRUE)
input_range ==
    ROBit("input_range", 4, 4, 1, TRUE)
alert_4 ==
    ROBit("alert_4", 4, 3, 1, TRUE)
alert_3 ==
    ROBit("alert_3", 4, 2, 1, TRUE)
alert_2 ==
    ROBit("alert_2", 4, 1, 1, TRUE)
alert_1 ==
    ROBit("alert_1", 4, 0, 1, TRUE)
\* Thermocouple Sensor Configuration - 0x5
thermocouple_type ==
    RWBits("thermocouple_type", 3, 5, 4, 1, TRUE)
\* filter_coefficient declared at the bits of thermocouple_type.
filter_coefficient_at_bit_4 ==
    RWBits("filter_coefficient", 3, 5, 4, 1, TRUE)
filter_coefficient ==
    RWBits("filter_coefficient", 3, 5, 0, 1, TRUE)
\* Device Configuration - 0x6
cold_junction_resolution ==
    RWBit("cold_junction_resolution", 6, 7, 1, TRUE)
adc_resolution ==
    RWBits("adc_resolution", 2, 6, 5, 1, TRUE)
burst_mode ==
    RWBits("burst_mode", 3, 6, 2, 1, TRUE)
shutdown_mode ==
    RWBits("shutdown_mode", 2, 6, 0, 1, TRUE)
\* Alert 1 Configuration - 0x8
alert_1_int_clear ==
    RWBit("alert_1_int_clear", 8, 7, 1, TRUE)
alert_1_temp_monitor ==
    RWBit("alert_1_temp_monitor", 8, 4, 1, TRUE)
alert_1_temp_direction ==
    RWBit("alert_1_temp_direction", 8, 3, 1, TRUE)
alert_1_state ==
    RWBit("alert_1_state", 8, 2, 1, TRUE)
alert_1_mode ==
    RWBit("alert_1_mode", 8, 1, 1, TRUE)
alert_1_enable ==
    RWBit("alert_1_enable", 8, 0, 1, TRUE)
\* Alert 2 Configuration - 0x9
alert_2_int_clear ==
    RWBit("alert_2_int_clear", 9, 7, 1, TRUE)
alert_2_temp_monitor ==
    RWBit("alert_2_temp_monitor", 9, 4, 1, TRUE)
alert_2_temp_direction ==
    RWBit("alert_2_temp_direction", 9, 3, 1, TRUE)
alert_2_state ==
    RWBit("alert_2_state", 9, 2, 1, TRUE)
alert_2_mode ==
    RWBit("alert_2_mode", 9, 1, 1, TRUE)
alert_2_enable ==
    RWBit("alert_2_enable", 9, 0, 1, TRUE)
\* Alert 3 Configuration - 0xa
alert_3_int_clear ==
    RWBit("alert_3_int_clear", 10, 7, 1, TRUE)
alert_3_temp_monitor ==
    RWBit("alert_3_temp_monitor", 10, 4, 1, TRUE)
alert_3_temp_direction ==
    RWBit("alert_3_temp_direction", 10, 3, 1, TRUE)
alert_3_state ==
    RWBit("alert_3_state", 10, 2, 1, TRUE)
alert_3_mode ==
    RWBit("alert_3_mode", 10, 1, 1, TRUE)
alert_3_enable ==
    RWBit("alert_3_enable", 10, 0, 1, TRUE)
\* Alert 4 Configuration - 0xb
alert_4_int_clear ==
    RWBit("alert_4_int_clear", 11, 7, 1, TRUE)
alert_4_temp_monitor ==
    RWBit("alert_4_temp_monitor", 11, 4, 1, TRUE)
alert_4_temp_direction ==
    RWBit("alert_4_temp_direction", 11, 3, 1, TRUE)
alert_4_state ==
    RWBit("alert_4_state", 11, 2, 1, TRUE)
alert_4_mode ==
    RWBit("alert_4_mode", 11, 1, 1, TRUE)
alert_4_enable ==
    RWBit("alert_4_enable", 11, 0, 1, TRUE)
\* Alert hysteresis 0xc .. 0xf, alert limits 0x10 .. 0x13
alert_hysteresis_1 ==
    UnaryStruct("alert_hysteresis_1", 12, 2, TRUE)
\* Alert 2 hysteresis declared at the address of alert 1 hysteresis.
alert_hysteresis_2_at_0c ==
    UnaryStruct("alert_hysteresis_2", 12, 2, TRUE)
alert_hysteresis_2 ==
    UnaryStruct("alert_hysteresis_2", 13, 2, TRUE)
alert_hysteresis_3 ==
    UnaryStruct("alert_hysteresis_3", 14, 2, TRUE)
alert_hysteresis_4 ==
    UnaryStruct("alert_hysteresis_4", 15, 2, TRUE)
alert_limit_1 ==
    UnaryStruct("alert_limit_1", 16, 2, TRUE)
alert_limit_2 ==
    UnaryStruct("alert_limit_2", 17, 2, TRUE)
alert_limit_3 ==
    UnaryStruct("alert_limit_3", 18, 2, TRUE)
alert_limit_4 ==
    UnaryStruct("alert_limit_4", 19, 2, TRUE)
\* Device ID/Revision - 0x20
_device_id ==
    ROBits("_device_id", 8, 32, 8, 2, FALSE)
_revision_id ==
    ROBits("_revision_id", 8, 32, 0, 2, TRUE)

\* The descriptors of the class, by kind.
BitFields ==
    { burst_complete, temperature_update, input_range, alert_4, alert_3,
      alert_2, alert_1, cold_junction_resolution,
      alert_1_int_clear, alert_1_temp_monitor, alert_1_temp_direction, alert_1_state, alert_1_mode, alert_1_enable,
      alert_2_int_clear, alert_2_temp_monitor, alert_2_temp_direction, alert_2_state, alert_2_mode, alert_2_enable,
      alert_3_int_clear, alert_3_temp_monitor, alert_3_temp_direction, alert_3_state, alert_3_mode, alert_3_enable,
      alert_4_int_clear, alert_4_temp_monitor, alert_4_temp_direction, alert_4_state, alert_4_mode, alert_4_enable }
BitsFields ==
    { thermocouple_type, filter_coefficient, adc_resolution, burst_mode,
      shutdown_mode, _device_id, _revision_id }
StructFields ==
    { _hot_junction_temperature, _junctions_temperature_delta,
      _cold_junction_temperature, raw_adc,
      alert_hysteresis_1, alert_hysteresis_2, alert_hysteresis_3,
      alert_hysteresis_4, alert_limit_1, alert_limit_2, alert_limit_3,
      alert_limit_4 }

\* Read-write descriptors define __set__; read-only ones refuse it.
RWBitFields == {f \in BitFields : f.rw}
ROBitFields == {f \in BitFields : ~f.rw}
RWBitsFields == {f \in BitsFields : f.rw}
ROBitsFields == {f \in BitsFields : ~f.rw}
RWStructFields == {f \in StructFields : f.rw}
ROStructFields == {f \in StructFields : ~f.rw}

\* Every register the descriptors name, with its width in bytes.
Addrs ==
    {f.addr : f \in BitFields} \cup {f.addr : f \in BitsFields}
        \cup {f.addr : f \in StructFields}
ByteAddrs ==
    {f.addr : f \in {g \in BitFields : g.width = 1}}
        \cup {f.addr : f \in {g \in BitsFields : g.width = 1}}

BitField(n) == CHOOSE f \in BitFields : f.name = n
BitsField(n) == CHOOSE f \in BitsFields : f.name = n
StructField(n) == CHOOSE f \in StructFields : f.name = n

------------------------------------------------------------------------------
(* What the descriptors do with the bytes of a transfer.  bytes[i] is the  *)
(* i-th data byte of the transfer (buffer[i] of the library: buffer[0]     *)
(* holds the register address).                                            *)

\* range(len(buffer) - 1, 0, -1), reversed when not lsb_first
Order(width, lsb_first) ==
    [k \in 1..width |-> IF lsb_first THEN width - k + 1 ELSE k]

Reversed(s) == [k \in 1..Len(s) |-> s[Len(s) - k + 1]]

\* for i in order: reg = (reg << 8) | buffer[i]
RECURSIVE FoldReg(_, _, _)
FoldReg(bytes, order, reg) ==
    IF order = <<>> THEN reg
    ELSE FoldReg(bytes, Tail(order), BitOr(Shl(reg, 8), bytes[Head(order)]))

\* for i in reversed(order): buffer[i] = reg & 0xFF; reg >>= 8
RECURSIVE UnfoldReg(_, _, _)
UnfoldReg(bytes, order, reg) ==
    IF order = <<>> THEN bytes
    ELSE UnfoldReg([bytes EXCEPT ![Head(order)] = BitAnd(reg, 255)],
                   Tail(order), Shr(reg, 8))

\* RWBits.__get__ / ROBits.__get__
BitsGet(f, bytes) ==
    Shr(BitAnd(FoldReg(bytes, Order(f.width, f.lsb_first), 0), f.bit_mask),
        f.lowest_bit)

\* A plausible slip: the new value is written without the bits read back.
BitsSetNoMerge(f, bytes, value) ==
    UnfoldReg(bytes, Reversed(Order(f.width, f.lsb_first)),
              Shl(value, f.lowest_bit))

\* RWBits.__set__: value <<= lowest_bit; reg &= ~bit_mask; reg |= value
BitsSet(f, bytes, value) ==
    UnfoldReg(bytes, Reversed(Order(f.width, f.lsb_first)),
              BitOr(BitAndNot(FoldReg(bytes, Order(f.width, f.lsb_first), 0),
                              f.bit_mask),
                    Shl(value, f.lowest_bit)))

\* RWBit.__get__ / ROBit.__get__: bool(buffer[byte] & bit_mask), True as 1
BitGet(f, bytes) ==
    IF BitAnd(bytes[f.byte], f.bit_mask) # 0 THEN 1 ELSE 0

\* RWBit.__set__: buffer[byte] |= bit_mask if value else &= ~bit_mask
BitSet(f, bytes, value) ==
    [bytes EXCEPT ![f.byte] = IF value # 0 THEN BitOr(@, f.bit_mask)
                              ELSE BitAndNot(@, f.bit_mask)]

\* struct.unpack_from(">H", buf, 1)[0]
StructGet(f, bytes) ==
    IF f.big_endian THEN bytes[1] * 256 + bytes[2]
    ELSE bytes[2] * 256 + bytes[1]

\* struct.pack_into(">H", buf, 1, value)
StructPack(f, value) ==
    IF f.big_endian THEN <<(value \div 256) % 256, value % 256>>
    ELSE <<value % 256, (value \div 256) % 256>>

------------------------------------------------------------------------------
(* Values returned to the caller.  A temperature is a float; it is kept    *)
(* here exactly, in ten-thousandths of a degree, so that 0.0625 is 625 and *)
(* the integer n is n * 10000.                                             *)

Mul0625(x) == x * 625
IntVal(n) == n * 10000

Ok(v) == [status |-> "ok", val |-> v]
Err(e) == [status |-> e, val |-> 0]
Call(op, field, arg) == [op |-> op, field |-> field, arg |-> arg]
Xfer(rw, a, ok) == [rw |-> rw, addr |-> a, ok |-> ok]

\* A decode of the hot junction as a signed quantity (">h").
temperature_signed(m) ==
    LET v == StructGet(_hot_junction_temperature, m[0])
    IN  Mul0625(IF v >= 32768 THEN v - 65536 ELSE v)

\* MCP9600.temperature, given the chip memory
temperature_value(m) ==
    Mul0625(StructGet(_hot_junction_temperature,
                      m[_hot_junction_temperature.addr]))

\* MCP9600.cold_temperature
cold_temperature_value(m) ==
    Mul0625(StructGet(_cold_junction_temperature,
                      m[_cold_junction_temperature.addr]))

\* MCP9600.temperature_delta
temperature_delta_value(m) ==
    IF temperature_value(m) >= 0
    THEN IntVal(StructGet(_junctions_temperature_delta,
                          m[_junctions_temperature_delta.addr]))
    ELSE IntVal(StructGet(_junctions_temperature_delta,
                          m[_junctions_temperature_delta.addr]) - 4096)

------------------------------------------------------------------------------
(* Bounds and input sets.                                                  *)

\* Setter calls made through one handle in one run.
MaxWrites == 2

IdBytes == 0..255
RevBytes == {0, 17, 64}
HotVals == {0, 1, 400, 32767, 32768, 65520, 65535}
DeltaVals == {0, 100, 4096, 65535}
ColdVals == {0, 160, 65535}
SeedBytes == {0, 165, 90}
SeedWords == {42405}
WriteWords == {0, 4660, 65535}
\* Values offered to a multi-bit field: its domain and a few beyond it.
BitsArgs == 0..8
Nacks == 0..2
Callers == {1, 2}

\* The chip's memory with the given register contents.
Chip(id, rev, h, d, c, b, w) ==
    [a \in Addrs |->
        IF a = _device_id.addr THEN <<id, rev>>
        ELSE IF a = _hot_junction_temperature.addr
            THEN <<h \div 256, h % 256>>
        ELSE IF a = _junctions_temperature_delta.addr
            THEN <<d \div 256, d % 256>>
        ELSE IF a = _cold_junction_temperature.addr
            THEN <<c \div 256, c % 256>>
        ELSE IF a \in ByteAddrs THEN <<b>>
        ELSE <<w \div 256, w % 256>>]

tvars == <<tpc, tfield, tval, treg, overlap>>

InitHandle ==
    /\ state = "new"
    /\ call = Call("", "", 0)
    /\ ret = Ok(0)
    /\ bus = <<>>
    /\ wrote = {}
    /\ lastw = [f \in {g.name : g \in RWStructFields} |-> -1]
    /\ nwrites = 0
    /\ tpc = [t \in Callers |-> "idle"]
    /\ tfield = [t \in Callers |-> ""]
    /\ tval = [t \in Callers |-> 0]
    /\ treg = [t \in Callers |-> <<>>]
    /\ overlap = FALSE

\* Any identity and revision byte; measurements vary only on a chip that
\* identifies itself, and the configuration bytes only under the default
\* measurements.
InitRead ==
    /\ InitHandle
    /\ \E id \in IdBytes, rev \in RevBytes, h \in HotVals, d \in DeltaVals,
          c \in ColdVals, b \in SeedBytes :
          /\ id # DEVICE_ID => h = 0 /\ d = 0 /\ c = 0 /\ b = 0
          /\ b # 0 => h = 0 /\ d = 0 /\ c = 0
          /\ mem = Chip(id, rev, h, d, c, b, 0)

InitWrite ==
    /\ InitHandle
    /\ \E b \in SeedBytes, w \in SeedWords :
          mem = Chip(DEVICE_ID, 0, 400, 100, 160, b, w)

Init == InitRead \/ InitWrite

------------------------------------------------------------------------------
(* Driver calls.  nack names the transport transaction of the call that    *)
(* the bus fails (0: none); an exception ends the call where it is raised. *)

\* The identity read of __init__ with lsb_first left at its default.
device_id_lsb_first(bytes) ==
    BitsGet(ROBits("_device_id", 8, 32, 8, 2, TRUE), bytes)

\* self._device_id, from the bytes of register 0x20
device_id_of(bytes) == BitsGet(_device_id, bytes)

\* MCP9600.__init__
__init__(nack) ==
    /\ state = "new"
    /\ call' = Call("__init__", "", 0)
    /\ bus' = <<Xfer("r", _device_id.addr, nack # 1)>>
    /\ IF nack = 1
       THEN ret' = Err("TransportError") /\ state' = "failed"
       ELSE IF device_id_of(mem[_device_id.addr]) # DEVICE_ID
            THEN ret' = Err("RuntimeError") /\ state' = "failed"
            ELSE ret' = Ok(0) /\ state' = "ready"
    /\ UNCHANGED <<mem, wrote, lastw, nwrites, tvars>>

\* A getter that issues one read of register a and decodes it to v.
Getter(op, field, a, v, nack) ==
    /\ state = "ready"
    /\ call' = Call(op, field, 0)
    /\ bus' = <<Xfer("r", a, nack # 1)>>
    /\ ret' = IF nack = 1 THEN Err("TransportError") ELSE Ok(v)
    /\ UNCHANGED <<state, mem, wrote, lastw, nwrites, tvars>>

\* MCP9600.temperature
temperature(nack) ==
    Getter("temperature", "", _hot_junction_temperature.addr,
           temperature_value(mem), nack)

\* MCP9600.cold_temperature
cold_temperature(nack) ==
    Getter("cold_temperature", "", _cold_junction_temperature.addr,
           cold_temperature_value(mem), nack)

\* A temperature_delta that reads the delta register whatever became of
\* the hot-junction read.
temperature_delta_bus_swallow(nack) ==
    <<Xfer("r", _hot_junction_temperature.addr, nack # 1),
      Xfer("r", _junctions_temperature_delta.addr, nack # 2)>>

\* The transactions of temperature_delta: self.temperature first, and the
\* delta register only once that has returned.
temperature_delta_bus(nack) ==
    IF nack = 1
    THEN <<Xfer("r", _hot_junction_temperature.addr, FALSE)>>
    ELSE <<Xfer("r", _hot_junction_temperature.addr, TRUE),
           Xfer("r", _junctions_temperature_delta.addr, nack # 2)>>

\* MCP9600.temperature_delta
temperature_delta(nack) ==
    /\ state = "ready"
    /\ call' = Call("temperature_delta", "", 0)
    /\ bus' = temperature_delta_bus(nack)
    /\ ret' = IF nack # 0 THEN Err("TransportError")
              ELSE Ok(temperature_delta_value(mem))
    /\ UNCHANGED <<state, mem, wrote, lastw, nwrites, tvars>>

\* Reading a single-bit field
GetBit(f, nack) ==
    Getter("get", f.name, f.addr, BitGet(f, mem[f.addr]), nack)

\* Reading a multi-bit field
GetBits(f, nack) ==
    Getter("get", f.name, f.addr, BitsGet(f, mem[f.addr]), nack)

\* Reading a 16-bit register (raw_adc, alert hysteresis, alert limit)
GetStruct(f, nack) ==
    Getter("get", f.name, f.addr, StructGet(f, mem[f.addr]), nack)

\* A setter that reads register a, then writes back bytes.
ReadModifyWrite(field, a, value, bytes, nack) ==
    /\ state = "ready"
    /\ nwrites < MaxWrites
    /\ nwrites' = nwrites + 1
    /\ call' = Call("set", field, value)
    /\ bus' = IF nack = 1 THEN <<Xfer("r", a, FALSE)>>
              ELSE <<Xfer("r", a, TRUE), Xfer("w", a, nack # 2)>>
    /\ wrote' = IF nack = 1 THEN wrote ELSE wrote \cup {a}
    /\ ret' = IF nack # 0 THEN Err("TransportError") ELSE Ok(0)
    /\ mem' = IF nack # 0 THEN mem ELSE [mem EXCEPT ![a] = bytes]
    /\ UNCHANGED <<state, lastw, tvars>>

\* Assigning a single-bit read-write field
SetBit(f, value, nack) ==
    ReadModifyWrite(f.name, f.addr, value, BitSet(f, mem[f.addr], value), nack)

\* Assigning a multi-bit read-write field
SetBits(f, value, nack) ==
    ReadModifyWrite(f.name, f.addr, value, BitsSet(f, mem[f.addr], value), nack)

\* Assigning a 16-bit read-write register: one write, no read
SetStruct(f, value, nack) ==
    /\ state = "ready"
    /\ nwrites < MaxWrites
    /\ nwrites' = nwrites + 1
    /\ call' = Call("set", f.name, value)
    /\ bus' = <<Xfer("w", f.addr, nack # 1)>>
    /\ wrote' = wrote \cup {f.addr}
    /\ ret' = IF nack # 0 THEN Err("TransportError") ELSE Ok(0)
    /\ mem' = IF nack # 0 THEN mem
              ELSE [mem EXCEPT ![f.addr] = StructPack(f, value)]
    /\ lastw' = IF nack # 0 THEN lastw ELSE [lastw EXCEPT ![f.name] = value]
    /\ UNCHANGED <<state, tvars>>

\* Assigning a read-only field: __set__ raises AttributeError
SetReadOnly(f, value) ==
    /\ state = "ready"
    /\ nwrites < MaxWrites
    /\ nwrites' = nwrites + 1
    /\ call' = Call("set", f.name, value)
    /\ bus' = <<>>
    /\ ret' = Err("AttributeError")
    /\ UNCHANGED <<state, mem, wrote, lastw, tvars>>

------------------------------------------------------------------------------
(* Two callers sharing the handle, each assigning one multi-bit field.     *)
(* The assignment is the two transport transactions of RWBits.__set__;     *)
(* nothing orders one caller's transactions against the other's.           *)

Other(t) == CHOOSE u \in Callers : u # t

\* First half: read the register and merge the value into what was read.
SetBitsRead(t, f, value) ==
    /\ state = "ready"
    /\ tpc[t] = "idle"
    /\ tfield[Other(t)] # f.name
    /\ tpc' = [tpc EXCEPT ![t] = "read"]
    /\ tfield' = [tfield EXCEPT ![t] = f.name]
    /\ tval' = [tval EXCEPT ![t] = value]
    /\ treg' = [treg EXCEPT ![t] = BitsSet(f, mem[f.addr], value)]
    /\ overlap' = (overlap \/ tpc[Other(t)] = "read")
    /\ call' = Call("set", f.name, value)
    /\ bus' = <<Xfer("r", f.addr, TRUE)>>
    /\ ret' = Ok(0)
    /\ UNCHANGED <<state, mem, wrote, lastw, nwrites>>

\* Second half: write the merged register back.
SetBitsWrite(t) ==
    /\ tpc[t] = "read"
    /\ tpc' = [tpc EXCEPT ![t] = "done"]
    /\ mem' = [mem EXCEPT ![BitsField(tfield[t]).addr] = treg[t]]
    /\ wrote' = wrote \cup {BitsField(tfield[t]).addr}
    /\ call' = Call("set", tfield[t], tval[t])
    /\ bus' = <<Xfer("w", BitsField(tfield[t]).addr, TRUE)>>
    /\ ret' = Ok(0)
    /\ UNCHANGED <<state, lastw, nwrites, tfield, tval, treg, overlap>>

------------------------------------------------------------------------------
(* Specifications.                                                         *)

\* Construction and every read, with transport failures, on any chip.
NextRead ==
    \/ \E nack \in 0..1 : __init__(nack)
    \/ \E nack \in 0..1 : temperature(nack)
    \/ \E nack \in 0..1 : cold_temperature(nack)
    \/ \E nack \in Nacks : temperature_delta(nack)
    \/ \E f \in BitFields, nack \in 0..1 : GetBit(f, nack)
    \/ \E f \in RWBitsFields, nack \in 0..1 : GetBits(f, nack)
    \/ \E f \in RWStructFields \cup {raw_adc}, nack \in 0..1 :
          GetStruct(f, nack)

SpecRead == InitRead /\ [][NextRead]_vars

\* Construction and every assignment, on a transport that does not fail.
NextWrite ==
    \/ __init__(0)
    \/ \E f \in RWBitFields, value \in 0..1 : SetBit(f, value, 0)
    \/ \E f \in RWBitsFields, value \in BitsArgs : SetBits(f, value, 0)
    \/ \E f \in RWStructFields, value \in WriteWords : SetStruct(f, value, 0)
    \/ \E f \in ROBitFields \cup ROBitsFields \cup ROStructFields :
          SetReadOnly(f, 1)

SpecWrite == InitWrite /\ [][NextWrite]_vars

\* Two callers assigning multi-bit fields through one handle.
NextCallers ==
    \/ __init__(0)
    \/ \E t \in Callers, f \in RWBitsFields :
          \E value \in 0..(Shr(f.bit_mask, f.lowest_bit)) :
              SetBitsRead(t, f, value)
    \/ \E t \in Callers : SetBitsWrite(t)

SpecCallers == InitWrite /\ [][NextCallers]_vars

Next == NextRead \/ NextWrite \/ NextCallers

Spec == Init /\ [][Next]_vars

------------------------------------------------------------------------------
(* Properties.                                                             *)

\* Bit i of a byte, and the 16-bit value two bytes carry upper byte first.
Bit(x, i) == (x \div (2 ^ i)) % 2
Word(bytes) == bytes[1] * 256 + bytes[2]

\* C1: __init__ reads register 0x20 and nothing else; when that read
\* succeeds the handle becomes usable exactly when the upper byte of the
\* register is 0x40, and construction otherwise fails with the
\* device-not-found error (RuntimeError), whatever the revision byte is.
\* A handle whose construction failed serves no call.
C1_DeviceIdDecidesConstruction ==
    /\ call.op = "__init__" =>
          /\ bus = <<[rw |-> "r", addr |-> 32, ok |-> bus[1].ok]>>
          /\ bus[1].ok /\ mem[32][1] = 64 =>
                state = "ready" /\ ret.status = "ok"
          /\ bus[1].ok /\ mem[32][1] # 64 =>
                state = "failed" /\ ret.status = "RuntimeError"
    /\ state = "ready" => mem[32][1] = 64
    /\ state = "failed" => call.op = "__init__"

\* A chip whose identity byte is wrong and whose revision byte is 0x40 is
\* refused.
C1_Witness ==
    /\ call.op = "__init__"
    /\ mem[32][1] # 64 /\ mem[32][2] = 64
    /\ state = "failed" /\ ret.status = "RuntimeError"

\* C2: temperature() is the unsigned 16-bit value of register 0x00 divided
\* by 16, and cold_temperature() the same of register 0x02 (values in
\* ten-thousandths: 25.0 is 250000, 10.0 is 100000).
C2_TemperatureIsRawOver16 ==
    /\ call.op = "temperature" /\ ret.status = "ok" =>
          /\ ret.val * 16 = Word(mem[0]) * 10000
          /\ Word(mem[0]) = 400 => ret.val = 250000
    /\ call.op = "cold_temperature" /\ ret.status = "ok" =>
          /\ ret.val * 16 = Word(mem[2]) * 10000
          /\ Word(mem[2]) = 160 => ret.val = 100000

\* temperature() has returned 4095.9375 for the raw value 0xFFFF.
C2_Witness ==
    /\ call.op = "temperature" /\ ret.status = "ok"
    /\ Word(mem[0]) = 65535 /\ ret.val = 40959375

\* C3: whenever temperature() >= 0, temperature_delta() returns the raw
\* value of register 0x01 scaled by 0.0625 (raw 100 yields 6.25).
C3_DeltaScaledWhenNonNegative ==
    (/\ call.op = "temperature_delta" /\ ret.status = "ok"
     /\ temperature_value(mem) >= 0)
        => ret.val * 16 = Word(mem[1]) * 10000

\* C4: when register 0x00 has bit 15 set, temperature() is negative and
\* temperature_delta() returns the raw value of register 0x01 minus 4096,
\* unscaled (raw 100 yields -3996).
C4_NegativeHotJunction ==
    Word(mem[0]) >= 32768 =>
        /\ call.op = "temperature" /\ ret.status = "ok" => ret.val < 0
        /\ call.op = "temperature_delta" /\ ret.status = "ok" =>
              ret.val = (Word(mem[1]) - 4096) * 10000

\* The eight read-write 16-bit registers and their addresses.
C5_Registers ==
    { <<"alert_hysteresis_1", 12>>, <<"alert_hysteresis_2", 13>>,
      <<"alert_hysteresis_3", 14>>, <<"alert_hysteresis_4", 15>>,
      <<"alert_limit_1", 16>>, <<"alert_limit_2", 17>>,
      <<"alert_limit_3", 18>>, <<"alert_limit_4", 19>> }

\* C5: each of the eight read-write 16-bit registers (0x0C-0x0F, 0x10-0x13)
\* reads back, after any sequence of calls, the value last written to it
\* through the driver, and a write to one of them changes no other
\* register.
C5_WordRoundTrip ==
    [][ /\ \A r \in C5_Registers :
              /\ StructField(r[1]).addr = r[2]
              /\ lastw'[r[1]] # -1 =>
                    StructGet(StructField(r[1]),
                              mem'[StructField(r[1]).addr]) = lastw'[r[1]]
        /\ \A r \in C5_Registers :
              (call'.op = "set" /\ call'.field = r[1] /\ ret'.status = "ok") =>
                  /\ lastw'[r[1]] = call'.arg
                  /\ \A a \in DOMAIN mem :
                        a # StructField(r[1]).addr => mem'[a] = mem[a]
      ]_vars

\* Alert limit 2 has just been written, and alert hysteresis 2, written
\* before it, still reads back what was written.
C5_Witness ==
    /\ call.op = "set" /\ call.field = "alert_limit_2"
    /\ lastw["alert_limit_2"] = 4660
    /\ lastw["alert_hysteresis_2"] = 65535
    /\ StructGet(alert_hysteresis_2, mem[alert_hysteresis_2.addr]) = 65535

\* The domain of each enumerated multi-bit field.
FieldDomain(n) ==
    CASE n = "thermocouple_type" -> TYPE_K..TYPE_R
      [] n = "filter_coefficient" -> FC_0..FC_7
      [] n = "adc_resolution" -> ADC_18..ADC_12
      [] n = "burst_mode" -> BURST_1..BURST_128
      [] n = "shutdown_mode" -> {NORMAL, SHUTDOWN, BURST}

C6_BitsNames ==
    { "thermocouple_type", "filter_coefficient", "adc_resolution",
      "burst_mode", "shutdown_mode" }

\* C6: writing a read-write bit-field with a value of its domain makes the
\* field read back that value, leaves every bit of the byte outside the
\* field as it was, and so leaves every other field of the byte reading
\* what it read before; this for the single bits and the multi-bit fields
\* of registers 0x04, 0x05, 0x06 and 0x08-0x0B.
C6_FieldRoundTripAndFrame ==
    [][ (call'.op = "set" /\ ret'.status = "ok") =>
          /\ \A f \in RWBitFields :
                call'.field = f.name =>
                    /\ f.addr \in {4, 6, 8, 9, 10, 11}
                    /\ BitGet(f, mem'[f.addr]) = call'.arg
                    /\ \A i \in 0..7 :
                          2 ^ i # f.bit_mask =>
                              Bit(mem'[f.addr][1], i) = Bit(mem[f.addr][1], i)
                    /\ \A g \in BitFields \ {f} :
                          g.addr = f.addr =>
                              BitGet(g, mem'[g.addr]) = BitGet(g, mem[g.addr])
                    /\ \A g \in RWBitsFields :
                          g.addr = f.addr =>
                              BitsGet(g, mem'[g.addr]) = BitsGet(g, mem[g.addr])
          /\ \A f \in RWBitsFields :
                (call'.field = f.name /\ call'.arg \in FieldDomain(f.name)) =>
                    /\ f.addr \in {5, 6}
                    /\ BitsGet(f, mem'[f.addr]) = call'.arg
                    /\ \A i \in 0..7 :
                          Bit(f.bit_mask, i) = 0 =>
                              Bit(mem'[f.addr][1], i) = Bit(mem[f.addr][1], i)
                    /\ \A g \in RWBitsFields \ {f} :
                          g.addr = f.addr =>
                              BitsGet(g, mem'[g.addr]) = BitsGet(g, mem[g.addr])
                    /\ \A g \in BitFields :
                          g.addr = f.addr =>
                              BitGet(g, mem'[g.addr]) = BitGet(g, mem[g.addr])
      ]_vars

\* thermocouple_type = TYPE_J has been written over a byte whose filter
\* coefficient was 5 and whose type was not J; the type reads J and the
\* filter coefficient still 5.
C6_Witness ==
    /\ call.op = "set" /\ call.field = "thermocouple_type"
    /\ call.arg = TYPE_J /\ nwrites = 1
    /\ mem[5] = <<149>>

\* C7: a write to an enumerated configuration field with a value outside
\* its domain is rejected with an error and leaves the register unchanged.
C7_OutOfDomainRejected ==
    [][ (/\ call'.op = "set" /\ call'.field \in C6_BitsNames
         /\ call'.arg \notin FieldDomain(call'.field))
            => ret'.status # "ok" /\ mem' = mem ]_vars

C8_ReadOnlyNames ==
    { "_hot_junction_temperature", "_junctions_temperature_delta",
      "_cold_junction_temperature", "raw_adc", "_device_id", "_revision_id",
      "input_range", "alert_1", "alert_2", "alert_3", "alert_4" }

\* C8: the driver issues no transport write to registers 0x00-0x03 and
\* 0x20 and their contents never change; an assignment to a read-only
\* field is denied with no transport transaction and no change of the
\* chip; and a write to burst_complete or temperature_update leaves bits
\* 0-4 of the status byte (input_range, alert_1..alert_4) as they were.
C8_ReadOnlyNeverWritten ==
    [][ /\ wrote' \cap {0, 1, 2, 3, 32} = {}
        /\ \A a \in {0, 1, 2, 3, 32} : mem'[a] = mem[a]
        /\ (call'.op = "set" /\ call'.field \in C8_ReadOnlyNames) =>
              ret'.status = "AttributeError" /\ bus' = <<>> /\ mem' = mem
        /\ (call'.op = "set"
              /\ call'.field \in {"burst_complete", "temperature_update"}) =>
              \A i \in 0..4 : Bit(mem'[4][1], i) = Bit(mem[4][1], i)
      ]_vars

\* burst_complete was cleared in a status byte 0xA5, leaving 0x25, and an
\* assignment to input_range has then been denied.
C8_Witness ==
    /\ call.op = "set" /\ call.field = "input_range"
    /\ ret.status = "AttributeError"
    /\ mem[4] = <<37>> /\ 4 \in wrote

\* C9: when the transport fails the read of register 0x00, temperature()
\* and temperature_delta() end with the transport's error and no value,
\* having issued that one transaction only (no retry, no read of the delta
\* register), and no register of the chip has changed.
C9_HotReadFailurePropagates ==
    [][ (/\ call'.op \in {"temperature", "temperature_delta"}
         /\ ~bus'[1].ok)
            => /\ ret' = [status |-> "TransportError", val |-> 0]
               /\ bus' = <<[rw |-> "r", addr |-> 0, ok |-> FALSE]>>
               /\ mem' = mem /\ wrote' = wrote /\ state' = state ]_vars

\* temperature_delta() has failed on its first transaction.
C9_Witness ==
    /\ call.op = "temperature_delta" /\ ret.status = "TransportError"
    /\ Len(bus) = 1 /\ ~bus[1].ok

\* C10: two callers each assign a different multi-bit field of the same
\* byte through the shared handle.  When neither read the byte while the
\* other was between its read and its write-back, both fields hold what
\* was written to them; a field that lost its value was lost to such an
\* interleaving.
C10_SerializedWritesKeepBothFields ==
    (/\ tpc[1] = "done" /\ tpc[2] = "done"
     /\ BitsField(tfield[1]).addr = BitsField(tfield[2]).addr
     /\ ~overlap)
        => /\ BitsGet(BitsField(tfield[1]), mem[BitsField(tfield[1]).addr])
                 = tval[1]
           /\ BitsGet(BitsField(tfield[2]), mem[BitsField(tfield[2]).addr])
                 = tval[2]

\* thermocouple_type and filter_coefficient were written by two callers
\* whose halves interleaved, and the type written by the first is lost.
C10_Witness ==
    /\ tpc[1] = "done" /\ tpc[2] = "done" /\ overlap
    /\ tfield[1] = "thermocouple_type" /\ tfield[2] = "filter_coefficient"
    /\ BitsGet(thermocouple_type, mem[5]) # tval[1]
    /\ BitsGet(filter_coefficient, mem[5]) = tval[2]

====
